---- MODULE Spec2Model ----
(***************************************************************************)
(* rOOM: a user-space OOM killer.  The model covers the pressure detector  *)
(* (oom/pressure.rs), the scorer (oom/score.rs), the victim selector       *)
(* (oom/selector.rs), the /proc reader (linux/proc.rs) and the killer loop *)
(* (oom/killer.rs).                                                        *)
(*                                                                         *)
(* Conventions.  Option<T> is a set: {} is None and {v} is Some(v).        *)
(* Instants and Durations are integer clock ticks.  A total score is kept  *)
(* as the exact integer  total_score * 10000 * total_memory , which orders *)
(* the candidates of one pass exactly as the f64 value does (the process   *)
(* kinds below were chosen so that f64 rounding creates or removes no tie).*)
(***************************************************************************)
EXTENDS Integers, Sequences, FiniteSets, TLC

VARIABLES
    now,                    \* the monotonic clock (Instant::now())
    config,                 \* KillerConfig
    meminfo,                \* current content of /proc/meminfo
    procTable,              \* current content of /proc/<pid>/..., by pid
    pressure_start,         \* PressureDetector.pressure_start
    last_pressure_check,    \* PressureDetector.last_pressure_check
    last_kill_time,         \* OOMKiller.last_kill_time (the worker's)
    total_kills,            \* OOMKiller.total_kills (the worker's)
    total_memory_reclaimed, \* OOMKiller.total_memory_reclaimed (the worker's)
    pc,                     \* position of the worker inside its loop
    victim,                 \* Option<pid> returned by select_process()
    process,                \* Option<ProcessInfo> re-read by check_and_kill
    callLog,                \* history: the check_pressure() calls that read meminfo
                            \* (in SpecRuntime: the calculate_runtime_score calls)
    sel,                    \* history: the last select_process() call
    iter,                   \* history: what the current loop iteration did
    killLog,                \* history: the SIGKILLs delivered, with their time
    running,                \* the handle's running flag (Arc<AtomicBool>)
    handle,                 \* the statistics fields of the handle's OOMKiller
    workers,                \* the worker threads start() spawned, in order
    api                     \* history: the last call made on the handle

\* the variables of the handle and its worker threads
lifeVars == <<running, handle, workers, api>>

vars == <<now, config, meminfo, procTable, pressure_start, last_pressure_check,
          last_kill_time, total_kills, total_memory_reclaimed, pc, victim,
          process, callLog, sel, iter, killLog, running, handle, workers, api>>

(***************************************************************************)
(* Bounds of the model.                                                    *)
(***************************************************************************)
MaxProcs == 3       \* pids are 1..MaxProcs
MaxTime == 6        \* the clock runs from 0 to MaxTime
MaxCalls == 3       \* check_pressure() calls followed in the detector history

None == {}
Some(v) == {v}
Unwrap(o) == CHOOSE v \in o : TRUE

Pids == 1..MaxProcs

(***************************************************************************)
(* Program constants.                                                      *)
(***************************************************************************)
KB == 1024                  \* "kB" to bytes, get_memory_stats
SCORE_ADJ_MIN == -1000      \* is_oomable: oom_score_adj > -1000
MEM_PRESSURE_WEIGHT == 6    \* OOMScorer::new, 0.6 in tenths
RUNTIME_WEIGHT == 2         \* OOMScorer::new, 0.2 in tenths
OOM_SCORE_ADJ_WEIGHT == 2   \* OOMScorer::new, 0.2 in tenths

(***************************************************************************)
(* /proc as the reader sees it.                                            *)
(*                                                                         *)
(* A process is the content of its /proc/<pid> files: the Name, State,     *)
(* PPid, VmRSS and VmSwap lines of status (the Vm* lines are "NNN kB", a    *)
(* string is the sequence of its pieces, first character first),           *)
(* oom_score_adj, and runtime, the value calculate_runtime_score derives   *)
(* from stat (in thousandths).  system is the verdict of                   *)
(* is_system_process, which the repository does not define.                *)
(***************************************************************************)
Proc(name, state, ppid, rss, swap, adj, runtime, system) ==
    [Name |-> name, State |-> state, PPid |-> ppid, VmRSS |-> rss,
     VmSwap |-> swap, oom_score_adj |-> adj, runtime |-> runtime,
     system |-> system]

Absent == [Name |-> <<>>, State |-> <<>>, PPid |-> 0, VmRSS |-> 0, VmSwap |-> 0,
           oom_score_adj |-> 0, runtime |-> 0, system |-> FALSE]

Sleeping == <<"S", " ", "(sleeping)">>

AppSmall    == Proc(<<"app">>, Sleeping, 1, 2048, 0, 0, 500, FALSE)
AppBig      == Proc(<<"app">>, Sleeping, 1, 4096, 0, 0, 500, FALSE)
Immortal    == Proc(<<"db">>, Sleeping, 1, 8192, 0, -1000, 500, FALSE)
KThread     == Proc(<<"[", "kworker", "]">>, Sleeping, 2, 4096, 0, 0, 500, FALSE)
Tiny        == Proc(<<"sh">>, Sleeping, 1, 512, 0, 500, 500, FALSE)
SystemProc  == Proc(<<"init">>, Sleeping, 1, 8192, 0, 0, 500, TRUE)

\* a zombie: its State value is "Z (zombie)" and its status has no Vm* lines
Zombie      == Proc(<<"app">>, <<"Z", " ", "(zombie)">>, 1, 0, 0, 0, 500, FALSE)
\* a process whose parent is outside its pid namespace: PPid is 0
Orphan      == Proc(<<"app">>, Sleeping, 0, 4096, 0, 0, 500, FALSE)

KindOrder == <<AppSmall, AppBig, Immortal, KThread, Tiny, SystemProc>>

ProcKinds == {KindOrder[i] : i \in DOMAIN KindOrder}

KindIndex(k) == CHOOSE i \in DOMAIN KindOrder : KindOrder[i] = k

\* /proc/meminfo: the "NNN kB" values of the keys the detector reads
MemInfo(total, avail, swapTotal, swapFree) ==
    [MemTotal |-> total, MemAvailable |-> avail,
     SwapTotal |-> swapTotal, SwapFree |-> swapFree]

MemHealthy  == MemInfo(128, 100, 10, 5)   \* 78% available, 50% swap used
MemLow      == MemInfo(128, 4, 10, 5)     \* 3% available
MemSwapFull == MemInfo(128, 100, 10, 1)   \* 90% swap used
MemEdge     == MemInfo(100, 5, 10, 2)     \* exactly 5% available, 80% swap used
MemNoSwap   == MemInfo(128, 4, 0, 0)      \* 3% available, no swap
MemLowBig   == MemInfo(8192, 256, 10, 5)  \* 3% available of a larger host

MemInfos == {MemHealthy, MemLow, MemSwapFull, MemEdge, MemNoSwap}

PresentPids(table) == {p \in DOMAIN table : table[p] # Absent}

(***************************************************************************)
(* linux/proc.rs                                                           *)
(***************************************************************************)
\* parse_kb_value: the number in front of "kB", as it stands
parse_kb_value(value) == value

\* ProcessInfo::from_pid on a present process
from_pid(pid, table) ==
    [pid |-> pid,
     name |-> table[pid].Name,
     state |-> table[pid].State,
     ppid |-> table[pid].PPid,
     vm_rss |-> parse_kb_value(table[pid].VmRSS),
     vm_swap |-> parse_kb_value(table[pid].VmSwap),
     oom_score_adj |-> table[pid].oom_score_adj,
     runtime |-> table[pid].runtime,
     system |-> table[pid].system]

\* str::starts_with(c)
starts_with(str, c) == Len(str) > 0 /\ str[1] = c

\* is_oomable without the oom_score_adj test
is_oomable_no_adj(p) ==
    /\ ~starts_with(p.name, "[")
    /\ p.state # <<"Z">>

\* is_oomable without the name test
is_oomable_no_name(p) ==
    /\ p.oom_score_adj > SCORE_ADJ_MIN
    /\ p.state # <<"Z">>

\* ProcessInfo::is_oomable
is_oomable(p) ==
    /\ ~starts_with(p.name, "[")
    /\ p.oom_score_adj > SCORE_ADJ_MIN
    /\ p.state # <<"Z">>

\* ProcessInfo::is_system_process (not in the repository)
is_system_process(p) == p.system

\* get_all_processes: one ProcessInfo per pid of the enumeration, in its order
get_all_processes(order, table) ==
    [i \in 1..Len(order) |-> from_pid(order[i], table)]

\* the orders in which read_dir may yield the pids present
RECURSIVE Orders(_)
Orders(S) ==
    IF S = {} THEN {<<>>}
    ELSE UNION {{<<p>> \o o : o \in Orders(S \ {p})} : p \in S}

(***************************************************************************)
(* oom/pressure.rs                                                         *)
(***************************************************************************)
\* PressureDetector::get_memory_stats: kB to bytes
get_memory_stats(mi) ==
    [total_memory |-> mi.MemTotal * KB,
     available_memory |-> mi.MemAvailable * KB,
     total_swap |-> mi.SwapTotal * KB,
     free_swap |-> mi.SwapFree * KB]

\* free_ratio < min_free_ratio || swap_used_ratio > max_swap_ratio, the
\* ratios compared in hundredths by cross-multiplication (total_memory > 0)
under_pressure(stats, th) ==
    \/ stats.available_memory * 100 < th.min_free_ratio * stats.total_memory
    \/ /\ stats.total_swap > 0
       /\ (stats.total_swap - stats.free_swap) * 100
              > th.max_swap_ratio * stats.total_swap

\* check_pressure comparing the dwell with > instead of >=
check_pressure_strict(stats, t, th, start, lastCheck) ==
    LET under == under_pressure(stats, th)
        start1 == IF under
                  THEN (IF start = None THEN Some(t) ELSE start)
                  ELSE None
        fire == under /\ t - Unwrap(start1) > th.pressure_duration
    IN  [ret |-> fire,
         pressure_start |-> start1,
         last_pressure_check |-> IF fire THEN lastCheck ELSE t]

\* check_pressure comparing the dwell with <= instead of >=
check_pressure_le(stats, t, th, start, lastCheck) ==
    LET under == under_pressure(stats, th)
        start1 == IF under
                  THEN (IF start = None THEN Some(t) ELSE start)
                  ELSE None
        fire == under /\ t - Unwrap(start1) <= th.pressure_duration
    IN  [ret |-> fire,
         pressure_start |-> start1,
         last_pressure_check |-> IF fire THEN lastCheck ELSE t]

\* check_pressure without the else branch that clears pressure_start
check_pressure_noclear(stats, t, th, start, lastCheck) ==
    LET under == under_pressure(stats, th)
        start1 == IF under /\ start = None THEN Some(t) ELSE start
        fire == under /\ t - Unwrap(start1) >= th.pressure_duration
    IN  [ret |-> fire,
         pressure_start |-> start1,
         last_pressure_check |-> IF fire THEN lastCheck ELSE t]

\* check_pressure clearing pressure_start when it returns true
check_pressure_rearm(stats, t, th, start, lastCheck) ==
    LET under == under_pressure(stats, th)
        start1 == IF under
                  THEN (IF start = None THEN Some(t) ELSE start)
                  ELSE None
        fire == under /\ t - Unwrap(start1) >= th.pressure_duration
    IN  [ret |-> fire,
         pressure_start |-> IF fire THEN None ELSE start1,
         last_pressure_check |-> IF fire THEN lastCheck ELSE t]

\* PressureDetector::check_pressure after a successful meminfo read: the value
\* returned and the detector's fields when it returns
check_pressure(stats, t, th, start, lastCheck) ==
    LET under == under_pressure(stats, th)
        start1 == IF under
                  THEN (IF start = None THEN Some(t) ELSE start)
                  ELSE None
        fire == under /\ t - Unwrap(start1) >= th.pressure_duration
    IN  [ret |-> fire,
         pressure_start |-> start1,
         last_pressure_check |-> IF fire THEN lastCheck ELSE t]

(***************************************************************************)
(* linux/proc_stat.rs                                                      *)
(***************************************************************************)
HOUR == 3600
DAY == HOUR * 24

\* the scores of calculate_runtime_score are counted in 864000ths, which
\* makes the three bands integers
RUNTIME_ONE == 10 * DAY

\* calculate_runtime_score with a middle band that rises with the age
runtime_score_rising(runtime_secs) ==
    IF runtime_secs < HOUR
    THEN 8 * DAY + 48 * (HOUR - runtime_secs)
    ELSE IF runtime_secs < DAY
    THEN 3 * DAY + 5 * runtime_secs
    ELSE 3 * (2 * DAY - (IF runtime_secs < 2 * DAY THEN runtime_secs ELSE 2 * DAY))

\* proc_stat::calculate_runtime_score, as a function of
\* process_stat.running_time().as_secs():
\*   0.8 + 0.2 * (HOUR - s) / HOUR,   0.3 + 0.5 * (DAY - s) / DAY,
\*   0.3 * (2 * DAY - min(s, 2 * DAY)) / DAY
runtime_score(runtime_secs) ==
    IF runtime_secs < HOUR
    THEN 8 * DAY + 48 * (HOUR - runtime_secs)
    ELSE IF runtime_secs < DAY
    THEN 3 * DAY + 5 * (DAY - runtime_secs)
    ELSE 3 * (2 * DAY - (IF runtime_secs < 2 * DAY THEN runtime_secs ELSE 2 * DAY))

(***************************************************************************)
(* oom/score.rs                                                            *)
(***************************************************************************)
\* calculate_memory_score * 10 * total_memory
calculate_memory_score(p, total_memory) == 7 * p.vm_rss + 3 * p.vm_swap

\* calculate_adj_score * 1000
calculate_adj_score(oom_score_adj) == oom_score_adj

\* calculate_runtime_score * 1000
calculate_runtime_score(p) == p.runtime

\* calculate_score: total_score * 10000 * total_memory
calculate_score(p, total_memory) ==
    100 * MEM_PRESSURE_WEIGHT * calculate_memory_score(p, total_memory)
    + RUNTIME_WEIGHT * total_memory * calculate_runtime_score(p)
    + OOM_SCORE_ADJ_WEIGHT * total_memory * calculate_adj_score(p.oom_score_adj)


(***************************************************************************)
(* std::collections::BinaryHeap, as oom/selector.rs uses it: a max-heap in *)
(* a vector (positions from 0), ordered by Candidate's score_details, that *)
(* is by total_score (impl Ord for OOMScoreDetails).                       *)
(***************************************************************************)
At(h, pos) == h[pos + 1]
Put(h, pos, e) == [h EXCEPT ![pos + 1] = e]
SatSub(a, b) == IF a >= b THEN a - b ELSE 0

\* OOMScoreDetails::cmp(a, b) is Less or Equal
cmp_le(a, b) == a.total_score <= b.total_score

RECURSIVE SiftUpHole(_, _, _, _)
SiftUpHole(h, start, pos, e) ==
    IF pos > start
    THEN LET parent == (pos - 1) \div 2
         IN  IF cmp_le(e, At(h, parent))
             THEN Put(h, pos, e)
             ELSE SiftUpHole(Put(h, pos, At(h, parent)), start, parent, e)
    ELSE Put(h, pos, e)

sift_up(h, start, pos) == SiftUpHole(h, start, pos, At(h, pos))

RECURSIVE SiftDownRangeHole(_, _, _, _)
SiftDownRangeHole(h, pos, end, e) ==
    LET child == 2 * pos + 1
    IN  IF child <= SatSub(end, 2)
        THEN LET c == IF cmp_le(At(h, child), At(h, child + 1))
                      THEN child + 1 ELSE child
             IN  IF cmp_le(At(h, c), e)
                 THEN Put(h, pos, e)
                 ELSE SiftDownRangeHole(Put(h, pos, At(h, c)), c, end, e)
        ELSE IF child = end - 1 /\ ~cmp_le(At(h, child), e)
             THEN Put(Put(h, pos, At(h, child)), child, e)
             ELSE Put(h, pos, e)

sift_down_range(h, pos, end) == SiftDownRangeHole(h, pos, end, At(h, pos))

RECURSIVE SiftDownToBottomHole(_, _, _, _)
SiftDownToBottomHole(h, pos, end, e) ==
    LET child == 2 * pos + 1
    IN  IF child <= SatSub(end, 2)
        THEN LET c == IF cmp_le(At(h, child), At(h, child + 1))
                      THEN child + 1 ELSE child
             IN  SiftDownToBottomHole(Put(h, pos, At(h, c)), c, end, e)
        ELSE IF child = end - 1
             THEN [h |-> Put(Put(h, pos, At(h, child)), child, e), pos |-> child]
             ELSE [h |-> Put(h, pos, e), pos |-> pos]

sift_down_to_bottom(h, pos) ==
    LET r == SiftDownToBottomHole(h, pos, Len(h), At(h, pos))
    IN  sift_up(r.h, pos, r.pos)

\* BinaryHeap::push
heap_push(h, item) == sift_up(Append(h, item), 0, Len(h))

\* BinaryHeap::pop on a non-empty heap: the heap without its greatest item
heap_pop(h) ==
    LET item == h[Len(h)]
        rest == SubSeq(h, 1, Len(h) - 1)
    IN  IF rest = <<>> THEN rest
        ELSE sift_down_to_bottom(Put(rest, 0, item), 0)

RECURSIVE SortedVecLoop(_, _)
SortedVecLoop(h, end) ==
    IF end > 1
    THEN LET e == end - 1
             swapped == Put(Put(h, 0, At(h, e)), e, At(h, 0))
         IN  SortedVecLoop(sift_down_range(swapped, 0, e), e)
    ELSE h

\* BinaryHeap::into_sorted_vec
into_sorted_vec(h) == SortedVecLoop(h, Len(h))

(***************************************************************************)
(* oom/selector.rs                                                         *)
(***************************************************************************)
\* is_valid_candidate without the min_memory_threshold test
is_valid_candidate_no_threshold(p, stats, sc) ==
    /\ ~(~sc.allow_system_processes /\ is_system_process(p))
    /\ is_oomable(p)
    /\ p.vm_rss * 100 >= stats.total_memory

\* ProcessSelector::is_valid_candidate
is_valid_candidate(p, stats, sc) ==
    /\ ~(~sc.allow_system_processes /\ is_system_process(p))
    /\ ~(p.vm_rss < sc.min_memory_threshold)
    /\ is_oomable(p)
    /\ p.vm_rss * 100 >= stats.total_memory

\* Candidate { score_details, memory_saved }
Candidate(p, stats) ==
    [total_score |-> calculate_score(p, stats.total_memory),
     process |-> p,
     memory_saved |-> p.vm_rss]

\* the body of the for loop of get_candidates, from process i on
RECURSIVE CandidatesLoop(_, _, _, _, _)
CandidatesLoop(processes, i, heap, stats, sc) ==
    IF i > Len(processes) THEN heap
    ELSE IF is_valid_candidate(processes[i], stats, sc)
         THEN LET pushed == heap_push(heap, Candidate(processes[i], stats))
                  capped == IF Len(pushed) > sc.max_candidates
                            THEN heap_pop(pushed) ELSE pushed
              IN  CandidatesLoop(processes, i + 1, capped, stats, sc)
         ELSE CandidatesLoop(processes, i + 1, heap, stats, sc)

\* ProcessSelector::get_candidates
get_candidates(processes, stats, sc) ==
    into_sorted_vec(CandidatesLoop(processes, 1, <<>>, stats, sc))

\* Iterator::max_by_key(|c| OrderedFloat(total_score)): of several maxima the
\* last one
RECURSIVE MaxByKeyFrom(_, _, _)
MaxByKeyFrom(cs, i, best) ==
    IF i > Len(cs) THEN best
    ELSE MaxByKeyFrom(cs, i + 1,
                      IF best.total_score > cs[i].total_score THEN best ELSE cs[i])

max_by_key(cs) == IF cs = <<>> THEN None ELSE Some(MaxByKeyFrom(cs, 2, cs[1]))

\* select_from without the min_candidates test
select_from_no_min(processes, stats, sc) ==
    {c.process.pid : c \in max_by_key(get_candidates(processes, stats, sc))}

\* ProcessSelector::select_process once check_pressure() returned true and
\* /proc/meminfo and /proc were read: Option<pid>
select_from(processes, stats, sc) ==
    LET candidates == get_candidates(processes, stats, sc)
    IN  IF Len(candidates) < sc.min_candidates THEN None
        ELSE {c.process.pid : c \in max_by_key(candidates)}


(***************************************************************************)
(* One select_process() call.  Its inputs are what the three reads return: *)
(* /proc/meminfo for check_pressure(), /proc/meminfo again for             *)
(* get_memory_stats(), and the /proc directory in some order.  A read that *)
(* fails is None.  The call record keeps what the call did: what           *)
(* check_pressure() returned, the MemoryStats it had read (stats), the     *)
(* MemoryStats select_process read for the candidates (memory_stats) and   *)
(* its total_memory, the pids for which is_oomable() holds, the pids        *)
(* scored, the result and whether it was Ok.                               *)
(***************************************************************************)
Reads(S) == {None} \cup {Some(m) : m \in S}

NoSelect == [called |-> FALSE, pressure |-> "none", stats |-> None,
             memory_stats |-> None, total_memory |-> 0, oomable |-> {},
             scored |-> {}, result |-> None, ok |-> TRUE]

\* self.pressure_detector.check_pressure(): "err", "true" or "false", and
\* the detector's fields afterwards
PressureOutcome(read1, t, th, start, lastCheck) ==
    IF read1 = None
    THEN [ret |-> "err", stats |-> None, pressure_start |-> start,
          last_pressure_check |-> lastCheck]
    ELSE LET cp == check_pressure(get_memory_stats(Unwrap(read1)), t, th,
                                  start, lastCheck)
         IN  [ret |-> IF cp.ret THEN "true" ELSE "false",
              stats |-> Some(get_memory_stats(Unwrap(read1))),
              pressure_start |-> cp.pressure_start,
              last_pressure_check |-> cp.last_pressure_check]

\* select_process going on whatever check_pressure() returned
Proceeds_always(ret) == ret # "err"

\* if !check_pressure()? { return Ok(None) }: does select_process go on
Proceeds(ret) == ret = "true"

\* the candidates part of select_process
SelectUnderPressure(read2, dir, table, sc) ==
    IF read2 = None \/ dir = None
    THEN [NoSelect EXCEPT !.called = TRUE, !.ok = FALSE]
    ELSE LET stats == get_memory_stats(Unwrap(read2))
             processes == get_all_processes(Unwrap(dir), table)
         IN  [NoSelect EXCEPT
                !.called = TRUE,
                !.memory_stats = Some(stats),
                !.total_memory = stats.total_memory,
                !.oomable = {processes[i].pid : i \in
                               {j \in 1..Len(processes) :
                                  is_oomable(processes[j])}},
                !.scored = {processes[i].pid : i \in
                              {j \in 1..Len(processes) :
                                 is_valid_candidate(processes[j], stats, sc)}},
                !.result = select_from(processes, stats, sc)]

\* ProcessSelector::select_process: the detector's fields afterwards and the
\* call record (result is the Option<ProcessId>, ok is FALSE for an Err)
select_process(read1, read2, dir, t, th, start, lastCheck, table, sc) ==
    LET po == PressureOutcome(read1, t, th, start, lastCheck)
        rec == IF Proceeds(po.ret)
               THEN SelectUnderPressure(read2, dir, table, sc)
               ELSE [NoSelect EXCEPT !.called = TRUE, !.ok = (po.ret # "err")]
    IN  [pressure_start |-> po.pressure_start,
         last_pressure_check |-> po.last_pressure_check,
         sel |-> [rec EXCEPT !.pressure = po.ret, !.stats = po.stats]]

(***************************************************************************)
(* Configurations.                                                         *)
(***************************************************************************)
DEFAULT_MIN_FREE_RATIO == 5      \* 0.05 in hundredths
DEFAULT_MAX_SWAP_RATIO == 80     \* 0.80 in hundredths
DEFAULT_MAX_CANDIDATES == 10

Thresholds(duration) ==
    [min_free_ratio |-> DEFAULT_MIN_FREE_RATIO,
     max_swap_ratio |-> DEFAULT_MAX_SWAP_RATIO,
     pressure_duration |-> duration]

SelectorConfigs ==
    [min_candidates : {1, 2},
     max_candidates : {1, 2, DEFAULT_MAX_CANDIDATES},
     allow_system_processes : BOOLEAN,
     min_memory_threshold : {256, 4096}]

KillerConfig(sc, th, interval, check) ==
    [selector |-> sc, pressure |-> th,
     min_kill_interval |-> interval, check_interval |-> check]

(***************************************************************************)
(* SpecSelect: select_process() over every table, configuration and        *)
(* enumeration order, on a detector that either is fresh or saw pressure   *)
(* start one pressure_duration ago.                                        *)
(***************************************************************************)
SelMemInfos == {MemHealthy, MemLow, MemLowBig}
SelMemInfos2 == {MemLow, MemLowBig}

\* what a loop iteration did: whether it began less than min_kill_interval
\* after last_kill_time, what check_pressure() returned, which pids were
\* scored, what select_process() returned, what the re-read and the kill
\* returned ("none" when not called), which pid got the SIGKILL, and whether
\* check_and_kill returned an Err.  calm is kept from one iteration to the
\* next: it is Some from an iteration that the kill interval skipped and that
\* began while the host's memory was not over-threshold, until an
\* over-threshold episode has gone on for pressure_duration or the next kill
\* is recorded, and holds when the host's present over-threshold episode
\* began (None while there is none).
NoIter == [limited |-> FALSE, pressure |-> "none", scored |-> {},
           result |-> None, reread |-> "none", kill |-> "none",
           signal |-> None, err |-> FALSE, calm |-> None]

\* OOMKiller::new: the statistics of a new OOMKiller
NewStatistics ==
    [last_kill_time |-> None, total_kills |-> 0, total_memory_reclaimed |-> 0]

\* no call was made on the handle yet: the number of calls so far, the last
\* one ("start", "stop" or "get_status"), whether it returned without error,
\* how many threads it spawned, the KillerStatus it returned and, for
\* comparison, the statistics the newest worker held at that moment
NoCall == [n |-> 0, op |-> "none", ok |-> TRUE, spawned |-> 0,
           status |-> None, worker |-> None]

\* a handle on which start() was never called
NoLife ==
    /\ running = FALSE
    /\ handle = NewStatistics
    /\ workers = <<>>
    /\ api = NoCall

\* process tables: pids 1..n present, each of some kind, the others absent.
\* Nothing in select_process() compares pids, and the order in which the
\* processes are met is the enumeration order, which is drawn from all
\* permutations: tables that differ by a renaming of the pids behave alike,
\* so the kinds are listed in KindOrder.
SelTables ==
    {t \in [Pids -> ProcKinds \cup {Absent}] :
        \A p, q \in Pids : p < q =>
            /\ t[p] = Absent => t[q] = Absent
            /\ (t[p] # Absent /\ t[q] # Absent)
                  => KindIndex(t[p]) <= KindIndex(t[q])}

SelInit ==
    /\ now = 1
    /\ config \in {KillerConfig(sc, Thresholds(1), 1, 1) : sc \in SelectorConfigs}
    /\ meminfo = MemHealthy
    /\ procTable \in SelTables
    /\ pressure_start \in {None, Some(0)}
    /\ last_pressure_check = 0
    /\ last_kill_time = None
    /\ total_kills = 0
    /\ total_memory_reclaimed = 0
    /\ pc = "select"
    /\ victim = None
    /\ process = None
    /\ callLog = <<>>
    /\ sel = NoSelect
    /\ iter = NoIter
    /\ killLog = <<>>
    /\ NoLife

SelectProcess ==
    /\ ~sel.called
    /\ \E read1 \in Reads(SelMemInfos) :
         \E read2 \in IF Proceeds(PressureOutcome(read1, now, config.pressure,
                               pressure_start, last_pressure_check).ret)
                      THEN Reads(SelMemInfos2) ELSE {None} :
            \* /proc is enumerated only after get_memory_stats() succeeded
            \E dir \in IF read2 # None
                       THEN Reads(Orders(PresentPids(procTable))) ELSE {None} :
               \E r \in {select_process(read1, read2, dir, now, config.pressure,
                                        pressure_start, last_pressure_check,
                                        procTable, config.selector)} :
                  /\ pressure_start' = r.pressure_start
                  /\ last_pressure_check' = r.last_pressure_check
                  /\ sel' = r.sel
    /\ UNCHANGED <<now, config, meminfo, procTable, last_kill_time, total_kills,
                   total_memory_reclaimed, pc, victim, process, callLog, iter,
                   killLog>>
    /\ UNCHANGED lifeVars

SelNext == SelectProcess

SpecSelect == SelInit /\ [][SelNext]_vars

(***************************************************************************)
(* SpecOomable: select_process() over tables that hold a zombie or a       *)
(* process with PPid 0 next to an ordinary process and a kernel thread.    *)
(***************************************************************************)
OomKindOrder == <<AppSmall, KThread, Zombie, Orphan>>

OomKinds == {OomKindOrder[i] : i \in DOMAIN OomKindOrder}

OomKindIndex(k) == CHOOSE i \in DOMAIN OomKindOrder : OomKindOrder[i] = k

\* as SelTables, over OomKinds
OomTables ==
    {t \in [Pids -> OomKinds \cup {Absent}] :
        \A p, q \in Pids : p < q =>
            /\ t[p] = Absent => t[q] = Absent
            /\ (t[p] # Absent /\ t[q] # Absent)
                  => OomKindIndex(t[p]) <= OomKindIndex(t[q])}

OomInit ==
    /\ now = 1
    /\ config \in {KillerConfig(sc, Thresholds(1), 1, 1) : sc \in SelectorConfigs}
    /\ meminfo = MemHealthy
    /\ procTable \in OomTables
    /\ pressure_start \in {None, Some(0)}
    /\ last_pressure_check = 0
    /\ last_kill_time = None
    /\ total_kills = 0
    /\ total_memory_reclaimed = 0
    /\ pc = "select"
    /\ victim = None
    /\ process = None
    /\ callLog = <<>>
    /\ sel = NoSelect
    /\ iter = NoIter
    /\ killLog = <<>>
    /\ NoLife

SpecOomable == OomInit /\ [][SelNext]_vars

(***************************************************************************)
(* SpecAdj: select_process() on a host of 4 GiB or more with two           *)
(* processes, one large and protected by its oom_score_adj, one smaller    *)
(* and exposed.  The sizes of this scenario are counted in units of 2^18:  *)
(* the kB numbers of the files in units of 2^18 kB (4 GiB is 16), byte     *)
(* counts in units of 2^18 bytes (the default min_memory_threshold of      *)
(* 1 MiB is 4).  Every comparison of the code is between quantities that   *)
(* scale alike.                                                            *)
(***************************************************************************)
\* A: RSS 4 GiB, oom_score_adj -999
ProtectedBig == Proc(<<"a">>, Sleeping, 1, 16, 0, -999, 500, FALSE)
\* B: RSS 1 GiB, oom_score_adj +500
ExposedSmall == Proc(<<"b">>, Sleeping, 1, 4, 0, 500, 500, FALSE)

AdjTable ==
    [p \in Pids |-> IF p = 1 THEN ProtectedBig
                    ELSE IF p = 2 THEN ExposedSmall ELSE Absent]

\* hosts of 4 GiB, 4.25 GiB, ... 32 GiB, short of memory, without swap
BigHosts ==
    {MemInfo(total, 0, 0, 0) : total \in {16, 17, 20, 24, 32, 48, 64, 128}}

\* the default selector configuration but for min_candidates
AdjSelectors ==
    {[min_candidates |-> n, max_candidates |-> DEFAULT_MAX_CANDIDATES,
      allow_system_processes |-> FALSE, min_memory_threshold |-> 4] :
        n \in {1, 2}}

AdjInit ==
    /\ now = 1
    /\ config \in {KillerConfig(sc, Thresholds(1), 1, 1) : sc \in AdjSelectors}
    /\ meminfo \in BigHosts
    /\ procTable = AdjTable
    /\ pressure_start \in {None, Some(0)}
    /\ last_pressure_check = 0
    /\ last_kill_time = None
    /\ total_kills = 0
    /\ total_memory_reclaimed = 0
    /\ pc = "select"
    /\ victim = None
    /\ process = None
    /\ callLog = <<>>
    /\ sel = NoSelect
    /\ iter = NoIter
    /\ killLog = <<>>
    /\ NoLife

\* select_process() on the host as it is
SelectProcessOnHost ==
    /\ ~sel.called
    /\ \E read1 \in Reads({meminfo}) :
         \E read2 \in IF Proceeds(PressureOutcome(read1, now, config.pressure,
                               pressure_start, last_pressure_check).ret)
                      THEN Reads({meminfo}) ELSE {None} :
            \E dir \in IF read2 # None
                       THEN Reads(Orders(PresentPids(procTable))) ELSE {None} :
               \E r \in {select_process(read1, read2, dir, now, config.pressure,
                                        pressure_start, last_pressure_check,
                                        procTable, config.selector)} :
                  /\ pressure_start' = r.pressure_start
                  /\ last_pressure_check' = r.last_pressure_check
                  /\ sel' = r.sel
    /\ UNCHANGED <<now, config, meminfo, procTable, last_kill_time, total_kills,
                   total_memory_reclaimed, pc, victim, process, callLog, iter,
                   killLog>>
    /\ UNCHANGED lifeVars

AdjNext == SelectProcessOnHost

SpecAdj == AdjInit /\ [][AdjNext]_vars


(***************************************************************************)
(* Properties of select_process().                                         *)
(***************************************************************************)
\* the pids of the table that satisfy the eligibility predicate
EligiblePids(table, total_memory, sc) ==
    {p \in PresentPids(table) :
        is_valid_candidate(from_pid(p, table), [total_memory |-> total_memory], sc)}

ScoreOf(p, table, total_memory) == calculate_score(from_pid(p, table), total_memory)

\* select_process() got as far as choosing among the candidates
Chose == sel.called /\ sel.pressure = "true" /\ sel.ok

SelEligible == EligiblePids(procTable, sel.total_memory, config.selector)

\* C3: a process whose oom_score_adj is exactly -1000 is never returned by
\* select_process(), whatever its RSS, its score and the other processes.
C3_ImmortalNeverSelected ==
    \A p \in sel.result : procTable[p].oom_score_adj # -1000

C3_Witness ==
    /\ Chose
    /\ sel.result # None
    /\ \E p \in PresentPids(procTable) :
         /\ procTable[p].oom_score_adj = -1000
         /\ \A q \in sel.result : procTable[p].VmRSS > procTable[q].VmRSS

\* C4: a process whose name starts with '[' is never the result of
\* select_process(), also when allow_system_processes is true.
C4_KernelThreadNeverSelected ==
    \A p \in sel.result : ~starts_with(procTable[p].Name, "[")

C4_Witness ==
    /\ Chose
    /\ config.selector.allow_system_processes
    /\ sel.result # None
    /\ \E p \in PresentPids(procTable) : starts_with(procTable[p].Name, "[")

\* C8: under confirmed pressure, when fewer than min_candidates processes
\* satisfy the eligibility predicate, select_process() returns None.
C8_TooFewCandidates ==
    (Chose /\ Cardinality(SelEligible) < config.selector.min_candidates)
        => sel.result = None

C8_Witness ==
    /\ Chose
    /\ Cardinality(SelEligible) = 1
    /\ config.selector.min_candidates = 2
    /\ sel.result = None

\* C9: under confirmed pressure with at least min_candidates eligible
\* processes, select_process() returns a process whose total score is the
\* maximum over all eligible processes, for every max_candidates >= 1.
C9_MaxOverAllEligible ==
    (Chose /\ Cardinality(SelEligible) >= config.selector.min_candidates)
        => /\ sel.result # None
           /\ \A p \in sel.result : \A q \in SelEligible :
                ScoreOf(p, procTable, sel.total_memory)
                    >= ScoreOf(q, procTable, sel.total_memory)

\* the victim the tie-break rule names: highest total score, then larger
\* vm_rss, then smaller pid
Preferred(p, q, table, total_memory) ==
    LET sp == ScoreOf(p, table, total_memory)
        sq == ScoreOf(q, table, total_memory)
        rp == from_pid(p, table).vm_rss
        rq == from_pid(q, table).vm_rss
    IN  \/ sp > sq
        \/ sp = sq /\ rp > rq
        \/ sp = sq /\ rp = rq /\ p <= q

\* C10: among the eligible processes sharing the highest total score,
\* select_process() returns the one with the larger vm_rss, then the smaller
\* pid, whatever the order /proc yields them in (stated where the cap of
\* max_candidates drops nobody).
C10_TieBreakDeterministic ==
    (Chose /\ sel.result # None
           /\ Cardinality(SelEligible) <= config.selector.max_candidates)
        => \A p \in sel.result : \A q \in SelEligible :
              Preferred(p, q, procTable, sel.total_memory)


\* the resident set of pid p in bytes: the "NNN kB" of its VmRSS line
RssBytes(p, table) == table[p].VmRSS * KB

\* C11: every pid select_process() returns has a stored vm_rss of at least
\* min_memory_threshold and is_oomable(); a process whose resident set in
\* bytes is below min_memory_threshold is never returned.
C11_BelowThresholdNeverSelected ==
    \A p \in sel.result :
        /\ from_pid(p, procTable).vm_rss >= config.selector.min_memory_threshold
        /\ RssBytes(p, procTable) >= config.selector.min_memory_threshold
        /\ is_oomable(from_pid(p, procTable))

\* a victim was chosen while a process that only the threshold excludes was
\* in the table
C11_Witness ==
    /\ Chose
    /\ sel.result # None
    /\ \E p \in PresentPids(procTable) :
         /\ from_pid(p, procTable).vm_rss < config.selector.min_memory_threshold
         /\ is_valid_candidate_no_threshold(from_pid(p, procTable),
                [total_memory |-> sel.total_memory], config.selector)

\* the checks of is_valid_candidate other than the one on vm_rss / total_memory
OtherChecks(p, sc) ==
    /\ ~(~sc.allow_system_processes /\ is_system_process(p))
    /\ ~(p.vm_rss < sc.min_memory_threshold)
    /\ is_oomable(p)

\* C12: a process whose resident set is less than 1% of total_memory is never
\* returned by select_process(), and a process whose resident set is at least
\* 1% of total_memory and that passes the other checks is accepted as a
\* candidate.
C12_OnePercentRule ==
    Chose =>
        /\ \A p \in sel.result :
              RssBytes(p, procTable) * 100 >= sel.total_memory
        /\ \A p \in PresentPids(procTable) :
              (/\ RssBytes(p, procTable) * 100 >= sel.total_memory
               /\ OtherChecks(from_pid(p, procTable), config.selector))
                 => p \in sel.scored

(***************************************************************************)
(* SpecPressure: one PressureDetector, called at any times on any meminfo. *)
(* callLog keeps, for every call that read /proc/meminfo, the time, what   *)
(* it observed, what it returned and pressure_start before and after.      *)
(***************************************************************************)
PressureDurations == {0, 1, 5}

ThresholdChoices ==
    {[min_free_ratio |-> DEFAULT_MIN_FREE_RATIO,
      max_swap_ratio |-> DEFAULT_MAX_SWAP_RATIO,
      pressure_duration |-> d] : d \in PressureDurations}

PressInit ==
    /\ now = 0
    /\ config \in {KillerConfig(CHOOSE sc \in SelectorConfigs : TRUE, th, 1, 1) :
                     th \in ThresholdChoices}
    /\ meminfo = MemHealthy
    /\ procTable = [p \in Pids |-> Absent]
    /\ pressure_start = None
    /\ last_pressure_check = 0
    /\ last_kill_time = None
    /\ total_kills = 0
    /\ total_memory_reclaimed = 0
    /\ pc = "detector"
    /\ victim = None
    /\ process = None
    /\ callLog = <<>>
    /\ sel = NoSelect
    /\ iter = NoIter
    /\ killLog = <<>>
    /\ NoLife

\* time passes
Tick ==
    /\ now < MaxTime
    /\ now' = now + 1
    /\ UNCHANGED <<config, meminfo, procTable, pressure_start,
                   last_pressure_check, last_kill_time, total_kills,
                   total_memory_reclaimed, pc, victim, process, callLog, sel,
                   iter, killLog>>
    /\ UNCHANGED lifeVars

Logged(read, t, th, before, po) ==
    [t |-> t,
     over |-> under_pressure(get_memory_stats(Unwrap(read)), th),
     ret |-> po.ret = "true",
     before |-> before,
     start |-> po.pressure_start]

\* PressureDetector::check_pressure
CheckPressure ==
    /\ Len(callLog) < MaxCalls
    /\ \E read \in Reads(MemInfos) :
         LET po == PressureOutcome(read, now, config.pressure, pressure_start,
                                   last_pressure_check)
         IN  /\ pressure_start' = po.pressure_start
             /\ last_pressure_check' = po.last_pressure_check
             /\ callLog' = IF read = None THEN callLog
                           ELSE Append(callLog, Logged(read, now, config.pressure,
                                                       pressure_start, po))
    /\ UNCHANGED <<now, config, meminfo, procTable, last_kill_time, total_kills,
                   total_memory_reclaimed, pc, victim, process, sel, iter,
                   killLog>>
    /\ UNCHANGED lifeVars

PressNext == Tick \/ CheckPressure

SpecPressure == PressInit /\ [][PressNext]_vars

(***************************************************************************)
(* Properties of check_pressure().                                         *)
(***************************************************************************)
\* the first call of the run of over-threshold observations that ends at call k
RECURSIVE RunStart(_)
RunStart(k) ==
    IF k > 1 /\ callLog[k - 1].over THEN RunStart(k - 1) ELSE k

Calls == 1..Len(callLog)

\* C5: check_pressure() returns true on a call if and only if pressure_start
\* is then set and at least pressure_duration old and every call since it
\* was set, this one included, observed over-threshold.
C5_TrueIffDwellElapsed ==
    \A k \in Calls :
        callLog[k].ret <=>
            /\ callLog[k].over
            /\ callLog[k].start = Some(callLog[RunStart(k)].t)
            /\ callLog[k].t - callLog[RunStart(k)].t
                   >= config.pressure.pressure_duration

\* pressure_duration = 5: the calls at 0 and 4 return false, the one at 5 true
C5_Witness ==
    /\ config.pressure.pressure_duration = 5
    /\ Len(callLog) = 3
    /\ callLog[1].t = 0 /\ callLog[1].over /\ ~callLog[1].ret
    /\ callLog[2].t = 4 /\ callLog[2].over /\ ~callLog[2].ret
    /\ callLog[3].t = 5 /\ callLog[3].over /\ callLog[3].ret

\* C6 as stated: a call that observes over-threshold while pressure_start is
\* None sets pressure_start to now and returns false, for every
\* pressure_duration >= 0.
C6_FirstObservationNeverFires ==
    \A k \in Calls :
        (callLog[k].over /\ callLog[k].before = None)
            => (callLog[k].start = Some(callLog[k].t) /\ ~callLog[k].ret)

\* C6 amended: a call that observes over-threshold while pressure_start is
\* None sets pressure_start to now; it returns false when pressure_duration
\* > 0 and true when pressure_duration = 0.
C6_FirstObservationStartsTimer ==
    \A k \in Calls :
        (callLog[k].over /\ callLog[k].before = None)
            => /\ callLog[k].start = Some(callLog[k].t)
               /\ callLog[k].ret <=> (config.pressure.pressure_duration = 0)

C6_Witness ==
    /\ config.pressure.pressure_duration > 0
    /\ \E k \in Calls :
         /\ callLog[k].over /\ callLog[k].before = None
         /\ callLog[k].start = Some(now) /\ ~callLog[k].ret

\* C7: whenever pressure_start is set, every call since it was set observed
\* over-threshold; a call that observes not over-threshold clears
\* pressure_start and returns false.
C7_StartOnlyWhileOver ==
    /\ \A k \in Calls :
         ~callLog[k].over => (callLog[k].start = None /\ ~callLog[k].ret)
    /\ pressure_start # None =>
         /\ Len(callLog) > 0
         /\ callLog[Len(callLog)].over
         /\ pressure_start = Some(callLog[RunStart(Len(callLog))].t)
         /\ callLog[RunStart(Len(callLog))].before = None

\* pressure was building, then one healthy observation cleared it
C7_Witness ==
    /\ pressure_start = None
    /\ \E k \in Calls :
         /\ ~callLog[k].over
         /\ callLog[k].before # None
         /\ callLog[k].t > Unwrap(callLog[k].before)

\* C24: once check_pressure() has returned true, pressure_start is left as
\* it was and every following call that observes over-threshold returns
\* true as well, until the first call that observes not over-threshold.
C24_PressurePersists ==
    \A k \in Calls :
        /\ (callLog[k].ret /\ callLog[k].before # None)
               => callLog[k].start = callLog[k].before
        /\ (k > 1 /\ callLog[k - 1].ret /\ callLog[k].over)
               => (callLog[k].ret /\ callLog[k].start = callLog[k - 1].start)

\* pressure_duration > 0: true was returned, and again on a later call at a
\* later time, with pressure_start where the first over-threshold call set it
C24_Witness ==
    /\ config.pressure.pressure_duration > 0
    /\ Len(callLog) = 3
    /\ ~callLog[1].ret
    /\ \A k \in 2..3 : callLog[k].ret /\ callLog[k].start = Some(callLog[1].t)
    /\ callLog[2].t < callLog[3].t


(***************************************************************************)
(* SpecRuntime: calculate_runtime_score() applied to processes of various  *)
(* ages, the ends of the three bands among them.                           *)
(***************************************************************************)
RuntimeSecs ==
    {0, 1, HOUR \div 2, HOUR - 1, HOUR, HOUR + 1, DAY \div 2, DAY - 1, DAY,
     DAY + 1, DAY + DAY \div 2, 2 * DAY - 1, 2 * DAY, 2 * DAY + 1, 10 * DAY}

RuntimeInit ==
    /\ now = 0
    /\ config = KillerConfig(CHOOSE sc \in SelectorConfigs : TRUE, Thresholds(1), 1, 1)
    /\ meminfo = MemHealthy
    /\ procTable = [p \in Pids |-> Absent]
    /\ pressure_start = None
    /\ last_pressure_check = 0
    /\ last_kill_time = None
    /\ total_kills = 0
    /\ total_memory_reclaimed = 0
    /\ pc = "scorer"
    /\ victim = None
    /\ process = None
    /\ callLog = <<>>
    /\ sel = NoSelect
    /\ iter = NoIter
    /\ killLog = <<>>
    /\ NoLife

\* calculate_runtime_score(&stat) on a process that has run for secs
CalculateRuntimeScore ==
    /\ Len(callLog) < MaxCalls
    /\ \E secs \in RuntimeSecs :
         callLog' = Append(callLog, [runtime_secs |-> secs,
                                     score |-> runtime_score(secs)])
    /\ UNCHANGED <<now, config, meminfo, procTable, pressure_start,
                   last_pressure_check, last_kill_time, total_kills,
                   total_memory_reclaimed, pc, victim, process, sel, iter,
                   killLog>>
    /\ UNCHANGED lifeVars

RuntimeNext == CalculateRuntimeScore

SpecRuntime == RuntimeInit /\ [][RuntimeNext]_vars

within_kill_interval_reversed(last, t, interval) ==
    last # None /\ t - Unwrap(last) > interval

\* `last_time.elapsed() < self.config.min_kill_interval` of check_and_kill
within_kill_interval(last, t, interval) ==
    last # None /\ t - Unwrap(last) < interval

LoopMemInfos == {MemHealthy, MemLow}
LoopTable == [p \in Pids |-> IF p = 1 THEN AppSmall ELSE AppBig]
LoopSelector == [min_candidates |-> 1, max_candidates |-> DEFAULT_MAX_CANDIDATES,
                 allow_system_processes |-> FALSE, min_memory_threshold |-> 256]
LoopConfigs ==
    {KillerConfig(LoopSelector, Thresholds(1), 2, 1),
     KillerConfig(LoopSelector, Thresholds(0), 3, 1)}

\* OOMKiller::new, and the host around it
Init ==
    /\ now = 0
    /\ config \in LoopConfigs
    /\ meminfo \in LoopMemInfos
    /\ procTable = LoopTable
    /\ pressure_start = None
    /\ last_pressure_check = 0
    /\ last_kill_time = None
    /\ total_kills = 0
    /\ total_memory_reclaimed = 0
    /\ pc = "loop"
    /\ victim = None
    /\ process = None
    /\ callLog = <<>>
    /\ sel = NoSelect
    /\ iter = NoIter
    /\ killLog = <<>>
    /\ NoLife

\* whether the host's memory is over-threshold
HostOver(mi) == under_pressure(get_memory_stats(mi), config.pressure)

\* what is followed since a calm iteration, brought up to the present: no
\* more once the host's episode has gone on for pressure_duration
CalmNow(calm) ==
    {episode \in calm :
        ~\E since \in episode :
            now - since >= config.pressure.pressure_duration}

\* what is followed since a calm iteration, after the host's memory became mi
CalmAfter(calm, mi) ==
    {IF ~HostOver(mi) THEN None
     ELSE IF episode = None THEN Some(now) ELSE episode :
        episode \in CalmNow(calm)}

\* the host's memory changes
MemChange ==
    /\ \E m \in LoopMemInfos \ {meminfo} :
         /\ meminfo' = m
         /\ iter' = [iter EXCEPT !.calm = CalmAfter(iter.calm, m)]
    /\ UNCHANGED <<now, config, procTable, pressure_start, last_pressure_check,
                   last_kill_time, total_kills, total_memory_reclaimed, pc,
                   victim, process, callLog, sel, killLog>>
    /\ UNCHANGED lifeVars

\* a process exits on its own (followed while the worker is between its
\* selection and its kill, where the loop can tell)
ProcExit ==
    /\ pc \in {"reread", "kill"}
    /\ \E p \in PresentPids(procTable) :
         procTable' = [procTable EXCEPT ![p] = Absent]
    /\ UNCHANGED <<now, config, meminfo, pressure_start, last_pressure_check,
                   last_kill_time, total_kills, total_memory_reclaimed, pc,
                   victim, process, callLog, sel, iter, killLog>>
    /\ UNCHANGED lifeVars

\* check_and_kill, lines 112-116: the kill-interval test
BeginIteration ==
    /\ pc = "loop"
    /\ pc' = IF within_kill_interval(last_kill_time, now, config.min_kill_interval)
             THEN "sleep" ELSE "select"
    /\ iter' = [NoIter EXCEPT
                   !.limited =
                       \E last \in last_kill_time :
                           now - last < config.min_kill_interval,
                   !.calm =
                       IF /\ \E last \in last_kill_time :
                                now - last < config.min_kill_interval
                          /\ ~HostOver(meminfo)
                       THEN Some(None)
                       ELSE CalmNow(iter.calm)]
    /\ UNCHANGED <<now, config, meminfo, procTable, pressure_start,
                   last_pressure_check, last_kill_time, total_kills,
                   total_memory_reclaimed, victim, process, callLog, sel,
                   killLog>>
    /\ UNCHANGED lifeVars

\* check_and_kill, line 119: self.selector.select_process()?
Select ==
    /\ pc = "select"
    /\ \E read1 \in Reads({meminfo}) :
         \E read2 \in IF Proceeds(PressureOutcome(read1, now, config.pressure,
                               pressure_start, last_pressure_check).ret)
                      THEN Reads({meminfo}) ELSE {None},
            dir \in IF Proceeds(PressureOutcome(read1, now, config.pressure,
                               pressure_start, last_pressure_check).ret)
                    THEN Reads(Orders(PresentPids(procTable))) ELSE {None} :
           LET r == select_process(read1, read2, dir, now, config.pressure,
                                   pressure_start, last_pressure_check,
                                   procTable, config.selector)
               found == r.sel.ok /\ r.sel.result # None
           IN  /\ pressure_start' = r.pressure_start
               /\ last_pressure_check' = r.last_pressure_check
               /\ iter' = [iter EXCEPT !.pressure = r.sel.pressure,
                                       !.scored = r.sel.scored,
                                       !.result = r.sel.result,
                                       !.err = ~r.sel.ok]
               /\ victim' = IF found THEN r.sel.result ELSE None
               /\ pc' = IF found THEN "reread" ELSE "sleep"
    /\ UNCHANGED <<now, config, meminfo, procTable, last_kill_time, total_kills,
                   total_memory_reclaimed, process, callLog, sel, killLog>>
    /\ UNCHANGED lifeVars

\* File::open of /proc/<pid>/status in from_pid: the process is gone
\* (ProcessNotFound), the read fails otherwise (SyscallError), or it succeeds
from_pid_result(pid, table, readable) ==
    IF pid \notin PresentPids(table) THEN "ProcessNotFound"
    ELSE IF ~readable THEN "SyscallError"
    ELSE "Ok"

\* the `?` of line 121 letting ProcessNotFound through
after_reread_ignore(res) == IF res = "SyscallError" THEN "sleep" ELSE "kill"

\* the `?` of line 121: where check_and_kill goes after the re-read
after_reread(res) == IF res = "Ok" THEN "kill" ELSE "sleep"

\* check_and_kill, lines 121-122: ProcessInfo::from_pid(pid)?
Reread ==
    /\ pc = "reread"
    /\ \E readable \in BOOLEAN :
         LET res == from_pid_result(Unwrap(victim), procTable, readable)
         IN  /\ iter' = [iter EXCEPT !.reread = res, !.err = (res # "Ok")]
             /\ process' = IF res = "Ok"
                           THEN Some(from_pid(Unwrap(victim), procTable))
                           ELSE None
             /\ pc' = after_reread(res)
             /\ victim' = IF after_reread(res) = "kill" THEN victim ELSE None
    /\ UNCHANGED <<now, config, meminfo, procTable, pressure_start,
                   last_pressure_check, last_kill_time, total_kills,
                   total_memory_reclaimed, callLog, sel, killLog>>
    /\ UNCHANGED lifeVars

\* SystemInterface::kill(pid, SIGKILL): Ok, or the Err of EPERM, or the Err
\* of ESRCH when the process is gone
kill(pid, table, permitted) ==
    IF pid \notin PresentPids(table) THEN "NoSuchProcess"
    ELSE IF ~permitted THEN "PermissionDenied"
    ELSE "Ok"

\* the `?` of line 125 trying again after PermissionDenied
after_kill_retry(res) ==
    IF res = "Ok" THEN "record"
    ELSE IF res = "PermissionDenied" THEN "kill" ELSE "sleep"

\* the `?` of line 125: where check_and_kill goes after kill_process
after_kill(res) == IF res = "Ok" THEN "record" ELSE "sleep"

\* check_and_kill, line 125: self.kill_process(pid)?
Kill ==
    /\ pc = "kill"
    /\ \E permitted \in BOOLEAN :
         LET res == kill(Unwrap(victim), procTable, permitted)
             held == after_kill(res) \in {"record", "kill"}
         IN  /\ pc' = after_kill(res)
             /\ victim' = IF held THEN victim ELSE None
             /\ process' = IF held THEN process ELSE None
             /\ IF res = "Ok"
                THEN /\ procTable' = [procTable EXCEPT ![Unwrap(victim)] = Absent]
                     /\ killLog' = Append(killLog,
                                     [t |-> now, pid |-> Unwrap(victim),
                                      rss |-> Unwrap(process).vm_rss])
                     /\ iter' = [iter EXCEPT !.kill = res, !.signal = victim]
                ELSE /\ iter' = [iter EXCEPT !.kill = res, !.err = TRUE]
                     /\ UNCHANGED <<procTable, killLog>>
    /\ UNCHANGED <<now, config, meminfo, pressure_start, last_pressure_check,
                   last_kill_time, total_kills, total_memory_reclaimed,
                   callLog, sel>>
    /\ UNCHANGED lifeVars

\* the statistics update without the += memory_freed
record_kill_no_memory(kills, reclaimed, memory_freed, t) ==
    [last_kill_time |-> Some(t), total_kills |-> kills + 1,
     total_memory_reclaimed |-> reclaimed]

\* check_and_kill, lines 128-130: the statistics after a kill that returned Ok
record_kill(kills, reclaimed, memory_freed, t) ==
    [last_kill_time |-> Some(t), total_kills |-> kills + 1,
     total_memory_reclaimed |-> reclaimed + memory_freed]

\* check_and_kill, lines 128-133: the statistics
Record ==
    /\ pc = "record"
    /\ LET r == record_kill(total_kills, total_memory_reclaimed,
                            Unwrap(process).vm_rss, now)
       IN  /\ last_kill_time' = r.last_kill_time
           /\ total_kills' = r.total_kills
           /\ total_memory_reclaimed' = r.total_memory_reclaimed
    /\ victim' = None
    /\ process' = None
    /\ pc' = "sleep"
    /\ iter' = [iter EXCEPT !.calm = None]
    /\ UNCHANGED <<now, config, meminfo, procTable, pressure_start,
                   last_pressure_check, callLog, sel, killLog>>
    /\ UNCHANGED lifeVars

\* start, line 96: thread::sleep(killer.config.check_interval), which lasts
\* check_interval at least (Tick adds the rest)
Sleep ==
    /\ pc = "sleep"
    /\ now + config.check_interval <= MaxTime
    /\ now' = now + config.check_interval
    /\ pc' = "loop"
    /\ UNCHANGED <<config, meminfo, procTable, pressure_start,
                   last_pressure_check, last_kill_time, total_kills,
                   total_memory_reclaimed, victim, process, callLog, sel, iter,
                   killLog>>
    /\ UNCHANGED lifeVars

Next ==
    \/ Tick \/ MemChange \/ ProcExit
    \/ BeginIteration \/ Select \/ Reread \/ Kill \/ Record \/ Sleep

Spec == Init /\ [][Next]_vars


(***************************************************************************)
(* Properties of the killer loop.                                          *)
(***************************************************************************)
\* C1: in every iteration a SIGKILL is sent only if check_pressure() returned
\* true in that iteration; when it returned false, select_process() returned
\* None, no process was scored and none was killed.
C1_KillOnlyUnderPressure ==
    /\ iter.signal # None => (iter.pressure = "true" /\ iter.result = iter.signal)
    /\ pc \in {"reread", "kill", "record"} => iter.pressure = "true"
    /\ iter.pressure = "false" =>
         /\ iter.scored = {}
         /\ iter.result = None
         /\ iter.signal = None

\* after a kill, an iteration in which check_pressure() returned false
C1_Witness ==
    /\ killLog # <<>>
    /\ iter.pressure = "false"
    /\ pc = "sleep"

\* C2: any two successful kills of the worker are at least min_kill_interval
\* apart; an iteration that begins less than min_kill_interval after
\* last_kill_time returns without calling select_process() and without a
\* signal.
C2_KillsSpaced ==
    /\ \A i, j \in 1..Len(killLog) :
         i < j => killLog[j].t - killLog[i].t >= config.min_kill_interval
    /\ iter.limited =>
         /\ iter.pressure = "none"
         /\ iter.result = None
         /\ iter.signal = None
         /\ pc \in {"sleep", "loop"}

\* a second kill exactly min_kill_interval after the first, with an
\* iteration skipped in between
C2_Witness ==
    /\ Len(killLog) >= 2
    /\ killLog[2].t - killLog[1].t = config.min_kill_interval
    /\ config.min_kill_interval > config.check_interval


\* the sum of the vm_rss values re-read before the kills of a log
RECURSIVE SumRss(_)
SumRss(log) ==
    IF log = <<>> THEN 0
    ELSE log[Len(log)].rss + SumRss(SubSeq(log, 1, Len(log) - 1))

\* the kills whose statistics are written: all but one just signalled
Recorded ==
    IF pc = "record" THEN SubSeq(killLog, 1, Len(killLog) - 1) ELSE killLog

\* C13: total_kills is the number of successful kills and
\* total_memory_reclaimed the sum of the vm_rss re-read before each of them;
\* neither counter decreases, and they change only in the step that records
\* a successful kill, total_kills by one and total_memory_reclaimed by the
\* re-read vm_rss.
C13_CountersMatchKills ==
    /\ [](/\ total_kills = Len(Recorded)
          /\ total_memory_reclaimed = SumRss(Recorded))
    /\ [][/\ total_kills' >= total_kills
          /\ total_memory_reclaimed' >= total_memory_reclaimed
          /\ (total_kills' # total_kills
                \/ total_memory_reclaimed' # total_memory_reclaimed)
               => /\ pc = "record"
                  /\ iter.kill = "Ok"
                  /\ total_kills' = total_kills + 1
                  /\ total_memory_reclaimed' =
                        total_memory_reclaimed + Unwrap(process).vm_rss]_vars

\* two kills recorded, of processes of different size
C13_Witness ==
    /\ pc = "sleep"
    /\ total_kills = 2
    /\ Len(killLog) = 2
    /\ killLog[1].rss # killLog[2].rss
    /\ total_memory_reclaimed = killLog[1].rss + killLog[2].rss


\* the three statistics of the worker
Statistics == <<last_kill_time, total_kills, total_memory_reclaimed>>

\* C15: when the re-read of the victim returns ProcessNotFound, the iteration
\* sends no signal and leaves last_kill_time, total_kills and
\* total_memory_reclaimed as they were; check_and_kill returns and the worker
\* goes on to its sleep and its next iteration with no victim held.
C15_RereadNotFoundSkips ==
    /\ [](iter.reread = "ProcessNotFound"
            => /\ pc \in {"sleep", "loop"}
               /\ iter.kill = "none"
               /\ iter.signal = None
               /\ victim = None /\ process = None)
    /\ [][(pc = "reread" /\ iter'.reread = "ProcessNotFound")
            => /\ Statistics' = Statistics
               /\ killLog' = killLog
               /\ procTable' = procTable]_vars

\* the victim exited between its selection and the re-read
C15_Witness ==
    /\ iter.reread = "ProcessNotFound"
    /\ iter.result # None
    /\ pc = "sleep"

\* C16: when kill returns the error of a process that is gone, check_and_kill
\* reports no error, sets last_kill_time to now and leaves
\* total_memory_reclaimed unchanged.
C16_KillNotFoundIsSuccess ==
    [][(pc = "kill" /\ iter'.kill = "NoSuchProcess")
        => /\ ~iter'.err
           /\ last_kill_time' = Some(now)
           /\ total_memory_reclaimed' = total_memory_reclaimed]_vars

\* C17: when kill returns PermissionDenied, the three statistics are
\* unchanged, no signal is delivered, check_and_kill returns at once (no
\* second kill in the iteration) and the worker goes on to its sleep.
C17_PermissionDeniedSkips ==
    /\ [](iter.kill = "PermissionDenied"
            => /\ pc \in {"sleep", "loop"}
               /\ iter.signal = None
               /\ victim = None /\ process = None)
    /\ [][(pc = "kill" /\ iter'.kill = "PermissionDenied")
            => /\ Statistics' = Statistics
               /\ killLog' = killLog
               /\ procTable' = procTable]_vars

\* a kill refused after an earlier one succeeded
C17_Witness ==
    /\ iter.kill = "PermissionDenied"
    /\ total_kills = 1
    /\ pc = "sleep"



(***************************************************************************)
(* oom/killer.rs: the handle (start, stop, get_status) and the worker      *)
(* threads it spawns.  A worker is the closure of start (lines 90-98): its *)
(* own OOMKiller, built at line 91, and its position:                      *)
(*   "while"   about to load the running flag (line 92)                    *)
(*   "check"   the flag was true, about to call check_and_kill (line 93)   *)
(*   "sleep"   check_and_kill returned, in thread::sleep (line 96)         *)
(*   "exited"  the flag was false, the closure returned                    *)
(* check_and_kill is one step here; what happens to the victim between its *)
(* selection, its re-read and its kill is an input of the step.            *)
(*                                                                         *)
(* Instants are kept relative to the present here: now stays 0, and a tick *)
(* of the clock moves every stored Instant one tick into the past, down to *)
(* -Horizon.  The code only compares `now - instant` with pressure_duration *)
(* and min_kill_interval, which cannot tell older Instants apart.          *)
(***************************************************************************)
MaxOps == 3         \* calls made on the handle

\* the loop condition ignoring the flag
loop_condition_always(flag) == TRUE

\* while running.load(Ordering::SeqCst)
loop_condition(flag) == flag

\* the outcomes of check_and_kill that are an Err: /proc/meminfo or /proc
\* could not be read, the re-read failed, the kill failed
IsErr(outcome) ==
    outcome \in {"Err_meminfo", "Err_proc", "Err_reread", "Err_kill"}

\* an Err of check_and_kill ending the thread
after_iteration_fatal(outcome) == IF IsErr(outcome) THEN "exited" ELSE "sleep"

\* if let Err(e) = killer.check_and_kill() { eprintln!(..) }: whatever
\* check_and_kill returned, the thread goes on to its sleep
after_iteration(outcome) == "sleep"

\* the closure's OOMKiller::new(Some(config)): its position, the ticks its
\* sleep still has to last, its detector's pressure_start, its statistics and
\* what its last check_and_kill returned ("none", "Ok" or "Err").  The detector's
\* last_pressure_check, which the code writes and never reads, is left out.
NewWorker ==
    [pc |-> "while", sleep_left |-> 0, pressure_start |-> None,
     last_kill_time |-> None, total_kills |-> 0,
     total_memory_reclaimed |-> 0, last |-> "none"]

StatisticsOf(k) ==
    [last_kill_time |-> k.last_kill_time, total_kills |-> k.total_kills,
     total_memory_reclaimed |-> k.total_memory_reclaimed]

Without(table, pid) == [table EXCEPT ![pid] = Absent]

\* lines 125-135 of check_and_kill: the signal is sent to pid in table;
\* rss is the vm_rss of the re-read process; on success the statistics are
\* updated and the process is gone
check_and_kill_signal(w, t, table, inp, pid, rss) ==
    IF after_kill(kill(pid, table, inp.permitted)) # "record"
    THEN [worker |-> w, table |-> table, kill |-> None, outcome |-> "Err_kill"]
    ELSE LET st == record_kill(w.total_kills, w.total_memory_reclaimed, rss, t)
         IN  [worker |-> [w EXCEPT
                            !.last_kill_time = st.last_kill_time,
                            !.total_kills = st.total_kills,
                            !.total_memory_reclaimed =
                                st.total_memory_reclaimed],
              table |-> Without(table, pid),
              kill |-> Some([t |-> t, pid |-> pid, rss |-> rss]),
              outcome |-> "killed"]

\* lines 121-135 of check_and_kill: the victim pid is read again in table
check_and_kill_reread(w, t, table, inp, pid) ==
    IF after_reread(from_pid_result(pid, table, inp.readable)) # "kill"
    THEN [worker |-> w, table |-> table, kill |-> None,
          outcome |-> "Err_reread"]
    ELSE check_and_kill_signal(w, t,
                               IF inp.gone = "before_kill"
                               THEN Without(table, pid) ELSE table,
                               inp, pid, from_pid(pid, table).vm_rss)

\* lines 116-135 of check_and_kill: r is what select_process returned
check_and_kill_selected(w, t, table, inp, r) ==
    IF ~r.sel.ok
    THEN [worker |-> [w EXCEPT !.pressure_start = r.pressure_start],
          table |-> table, kill |-> None,
          outcome |-> IF inp.read1 = None \/ inp.read2 = None
                      THEN "Err_meminfo" ELSE "Err_proc"]
    ELSE IF r.sel.result = None
    THEN [worker |-> [w EXCEPT !.pressure_start = r.pressure_start],
          table |-> table, kill |-> None,
          outcome |-> IF r.sel.pressure = "true"
                      THEN "no_victim" ELSE "no_pressure"]
    ELSE check_and_kill_reread([w EXCEPT !.pressure_start = r.pressure_start],
                               t,
                               IF inp.gone = "before_reread"
                               THEN Without(table, Unwrap(r.sel.result))
                               ELSE table,
                               inp, Unwrap(r.sel.result))

\* OOMKiller::check_and_kill of worker w at time t.  inp is what the calls
\* meet: the three reads of select_process, whether the victim is gone
\* before the re-read or before the kill, whether its status file can be
\* read and whether the signal is permitted.  The result is the worker
\* afterwards, the process table afterwards, the outcome and the kill done.
check_and_kill(w, t, cfg, table, inp) ==
    IF within_kill_interval(w.last_kill_time, t, cfg.min_kill_interval)
    THEN [worker |-> w, table |-> table, outcome |-> "limited", kill |-> None]
    ELSE check_and_kill_selected(w, t, table, inp,
             select_process(inp.read1, inp.read2, inp.dir, t, cfg.pressure,
                            w.pressure_start, t, table, cfg.selector))

\* start spawning a thread whatever the flag is
start_no_guard(flag, spawn_ok) ==
    [running |-> TRUE, spawn |-> spawn_ok, ok |-> spawn_ok]

\* OOMKiller::start: the flag afterwards, whether a thread was spawned and
\* whether Ok was returned; spawn_ok tells whether thread::Builder::spawn
\* succeeds
start(flag, spawn_ok) ==
    IF flag
    THEN [running |-> flag, spawn |-> FALSE, ok |-> TRUE]
    ELSE [running |-> TRUE, spawn |-> spawn_ok, ok |-> spawn_ok]

\* OOMKiller::stop: the flag afterwards
stop(flag) == FALSE

\* OOMKiller::get_status on an OOMKiller k (running_since left out)
get_status(k) == StatisticsOf(k)

LifeConfig == KillerConfig(LoopSelector, Thresholds(1), 2, 1)

\* two processes, whatever the number of pids
LifeTable ==
    [p \in Pids |-> IF p = 1 THEN AppSmall ELSE IF p = 2 THEN AppBig ELSE Absent]

\* a handle on a host that stays short of memory
LifeInit ==
    /\ now = 0
    /\ config = LifeConfig
    /\ meminfo = MemLow
    /\ procTable = LifeTable
    /\ pressure_start = None
    /\ last_pressure_check = 0
    /\ last_kill_time = None
    /\ total_kills = 0
    /\ total_memory_reclaimed = 0
    /\ pc = "loop"
    /\ victim = None
    /\ process = None
    /\ callLog = <<>>
    /\ sel = NoSelect
    /\ iter = NoIter
    /\ killLog = <<>>
    /\ NoLife

\* the variables of the single worker of Spec, unused here
loopVars == <<pressure_start, last_pressure_check, last_kill_time, total_kills,
              total_memory_reclaimed, pc, victim, process, callLog, sel, iter>>

Called(op) == [NoCall EXCEPT !.n = api.n + 1, !.op = op]

\* killer.start()
Start ==
    /\ api.n < MaxOps
    /\ \E spawn_ok \in BOOLEAN :
         LET r == start(running, spawn_ok)
         IN  /\ running' = r.running
             /\ workers' = IF r.spawn THEN Append(workers, NewWorker)
                           ELSE workers
             /\ api' = [Called("start") EXCEPT
                          !.ok = r.ok,
                          !.spawned = IF r.spawn THEN 1 ELSE 0]
    /\ UNCHANGED <<now, config, meminfo, procTable, killLog, handle>>
    /\ UNCHANGED loopVars

\* killer.stop()
Stop ==
    /\ api.n < MaxOps
    /\ running' = stop(running)
    /\ api' = Called("stop")
    /\ UNCHANGED <<now, config, meminfo, procTable, killLog, handle, workers>>
    /\ UNCHANGED loopVars

\* killer.get_status()
GetStatus ==
    /\ api.n < MaxOps
    /\ api' = [Called("get_status") EXCEPT
                 !.status = Some(get_status(handle)),
                 !.worker = IF workers = <<>> THEN None
                            ELSE Some(StatisticsOf(workers[Len(workers)]))]
    /\ UNCHANGED <<now, config, meminfo, procTable, killLog, running, handle,
                   workers>>
    /\ UNCHANGED loopVars

\* line 92: while running.load(Ordering::SeqCst); when the closure returns,
\* its OOMKiller is dropped
WorkerTest(w) ==
    /\ w \in DOMAIN workers
    /\ workers[w].pc = "while"
    /\ workers' = [workers EXCEPT ![w] =
                      IF loop_condition(running)
                      THEN [@ EXCEPT !.pc = "check"]
                      ELSE [NewWorker EXCEPT !.pc = "exited"]]
    /\ UNCHANGED <<now, config, meminfo, procTable, killLog, running, handle,
                   api>>
    /\ UNCHANGED loopVars

\* lines 93-95: killer.check_and_kill(), an Err printed
WorkerCheckAndKill(w) ==
    /\ w \in DOMAIN workers
    /\ workers[w].pc = "check"
    /\ LET me == workers[w]
           limited == within_kill_interval(me.last_kill_time, now,
                                           config.min_kill_interval)
           Try(inp) == check_and_kill(me, now, config, procTable, inp)
           Calm(read1, read2, dir) ==
               [read1 |-> read1, read2 |-> read2, dir |-> dir, gone |-> "no",
                readable |-> TRUE, permitted |-> TRUE]
       IN  \E read1 \in IF limited THEN {None} ELSE Reads({meminfo}) :
           \E read2 \in IF ~limited /\ Proceeds(PressureOutcome(read1, now,
                              config.pressure, me.pressure_start,
                              now).ret)
                        THEN Reads({meminfo}) ELSE {None} :
           \E dir \in IF read2 # None
                      THEN Reads(Orders(PresentPids(procTable))) ELSE {None} :
           \E found \in {Try(Calm(read1, read2, dir)).outcome = "killed"} :
           \E gone \in IF found THEN {"no", "before_reread", "before_kill"}
                       ELSE {"no"} :
           \E readable \in IF found /\ gone # "before_reread"
                           THEN BOOLEAN ELSE {TRUE} :
           \E permitted \in IF found /\ gone = "no" /\ readable
                            THEN BOOLEAN ELSE {TRUE} :
           \E r \in {Try([Calm(read1, read2, dir) EXCEPT
                            !.gone = gone, !.readable = readable,
                            !.permitted = permitted])} :
              /\ workers' = [workers EXCEPT ![w] =
                               [r.worker EXCEPT
                                  !.pc = after_iteration(r.outcome),
                                  !.sleep_left = config.check_interval,
                                  !.last = IF IsErr(r.outcome)
                                           THEN "Err" ELSE "Ok"]]
              /\ procTable' = r.table
              /\ killLog' = IF r.kill = None THEN killLog
                            ELSE Append(killLog, Unwrap(r.kill))
    /\ UNCHANGED <<now, config, meminfo, running, handle, api>>
    /\ UNCHANGED loopVars

\* line 96: thread::sleep(killer.config.check_interval) returns, not before
\* check_interval has passed
WorkerWake(w) ==
    /\ w \in DOMAIN workers
    /\ workers[w].pc = "sleep"
    /\ workers[w].sleep_left = 0
    /\ workers' = [workers EXCEPT ![w].pc = "while"]
    /\ UNCHANGED <<now, config, meminfo, procTable, killLog, running, handle,
                   api>>
    /\ UNCHANGED loopVars

\* the oldest Instant told apart from older ones
Horizon ==
    IF config.min_kill_interval > config.pressure.pressure_duration
    THEN config.min_kill_interval ELSE config.pressure.pressure_duration

\* an Option<Instant> one tick later
Past(instant) == {IF i > -Horizon THEN i - 1 ELSE i : i \in instant}

\* a tick of the clock: the sleeps have one tick less to last and the stored
\* Instants are one tick older
LifeTick ==
    /\ workers' = [w \in DOMAIN workers |->
                     [workers[w] EXCEPT
                        !.sleep_left = SatSub(@, 1),
                        !.pressure_start = Past(@),
                        !.last_kill_time = Past(@)]]
    /\ killLog' = [k \in DOMAIN killLog |->
                     [killLog[k] EXCEPT !.t = Unwrap(Past(Some(@)))]]
    /\ UNCHANGED <<now, config, meminfo, procTable, running, handle, api>>
    /\ UNCHANGED loopVars

WorkerStep(w) == WorkerTest(w) \/ WorkerCheckAndKill(w) \/ WorkerWake(w)

\* the threads start() can have spawned within MaxOps calls
WorkerIds == 1..((MaxOps + 1) \div 2)

LifeNext ==
    \/ LifeTick
    \/ Start \/ Stop \/ GetStatus
    \/ \E w \in WorkerIds : WorkerTest(w)
    \/ \E w \in WorkerIds : WorkerCheckAndKill(w)
    \/ \E w \in WorkerIds : WorkerWake(w)

SpecLife == LifeInit /\ [][LifeNext]_vars

\* the scheduler lets every thread that can take a step take one, and time
\* passes
SpecLifeFair ==
    /\ SpecLife
    /\ WF_vars(LifeTick)
    /\ \A w \in WorkerIds : WF_vars(WorkerStep(w))


(***************************************************************************)
(* Properties of the handle and its workers.                               *)
(***************************************************************************)
\* C14: get_status() on the handle returns the statistics the worker holds:
\* after N successful kills of the worker its total_kills is N.
C14_StatusIsWorkerSnapshot ==
    (api.op = "get_status" /\ api.worker # None) => api.status = api.worker

\* the step is a call of op on the handle
IsCall(op) == api'.n = api.n + 1 /\ api'.op = op

\* C18: whatever check_and_kill returns, an Err included (/proc/meminfo or
\* /proc unreadable, re-read failed, kill failed), the worker goes on to its
\* sleep and back to the loop condition; it leaves the loop only from the
\* loop condition, when the running flag is false.
C18_ErrorsNeverEndWorker ==
    [][\A w \in DOMAIN workers :
         LET pc0 == workers[w].pc
             pc1 == workers'[w].pc
         IN  /\ (pc0 = "check" /\ pc1 # pc0)
                  => (pc1 = "sleep" /\ workers'[w].last # "none")
             /\ (pc0 = "sleep" /\ pc1 # pc0) => pc1 = "while"
             /\ (pc0 = "while" /\ pc1 # pc0)
                  => pc1 = (IF running THEN "check" ELSE "exited")
             /\ pc0 = "exited" => pc1 = "exited"]_vars

\* a worker in its next iteration after a check_and_kill that returned Err
\* because its victim had exited
C18_Witness ==
    /\ running
    /\ killLog = <<>>
    /\ procTable # LifeTable
    /\ \E w \in DOMAIN workers :
         workers[w].pc = "check" /\ workers[w].last = "Err"

\* C19: start() on a killer whose flag is false sets the flag and, when it
\* returns Ok, has spawned exactly one worker (a new OOMKiller at the loop
\* condition); start() on a killer whose flag is true returns Ok, spawns
\* nothing and changes nothing.
C19_StartSpawnsOnce ==
    [][IsCall("start") =>
         IF running
         THEN /\ api'.ok /\ api'.spawned = 0
              /\ UNCHANGED <<running, handle, workers, procTable, killLog>>
         ELSE /\ running'
              /\ handle' = handle
              /\ api'.ok =>
                   /\ api'.spawned = 1
                   /\ workers' = Append(workers, NewWorker)]_vars

\* start() was called on a running killer whose worker is live
C19_Witness ==
    /\ api.op = "start" /\ api.ok /\ api.spawned = 0
    /\ running
    /\ Len(workers) = 1
    /\ workers[1].pc = "sleep"

AllExited == \A w \in DOMAIN workers : workers[w].pc = "exited"

\* C20: stop() clears the running flag at once and waits for nothing; a
\* worker begins an iteration only after it loaded the flag as true; and,
\* with fair scheduling, once the flag is false either it is set again by a
\* start() or every worker leaves its loop.
C20_StopEndsWorker ==
    /\ [][IsCall("stop") => (~running' /\ workers' = workers)]_vars
    /\ [][\A w \in DOMAIN workers :
            (workers[w].pc = "while" /\ workers'[w].pc = "check") => running]_vars
    /\ (~running) ~> (running \/ AllExited)

\* stop() was the last call and the worker, which had killed, has exited
C20_Witness ==
    /\ api.op = "stop"
    /\ ~running
    /\ workers # <<>>
    /\ AllExited
    /\ killLog # <<>>

\* the workers of the handle whose closure has not returned
LiveWorkers == {w \in DOMAIN workers : workers[w].pc # "exited"}

\* C21: whatever start() and stop() calls are made on the handle, and
\* however they interleave with the workers' iterations and sleeps, at most
\* one worker loop of the handle is live at any time.
C21_AtMostOneWorkerLive == Cardinality(LiveWorkers) <= 1

(***************************************************************************)
(* Properties of select_process() regarding the reads of /proc/meminfo.    *)
(***************************************************************************)

\* C22: within one select_process() call the MemoryStats that decided
\* pressure and the MemoryStats used for eligibility and scoring are the
\* same snapshot, whatever /proc/meminfo does during the call.
C22_OneMeminfoSnapshot ==
    (sel.called /\ sel.stats # None /\ sel.memory_stats # None)
        => sel.memory_stats = sel.stats

(***************************************************************************)
(* Properties of the Proc Reader.                                          *)
(***************************************************************************)

\* C23: the memory fields of a ProcessInfo that from_pid produces are byte
\* counts, the "NNN kB" values of /proc/<pid>/status multiplied by 1024 (the
\* unit of MemoryStats and of min_memory_threshold).
C23_MemoryFieldsAreBytes ==
    [][(pc = "reread" /\ process' # None) =>
          /\ Unwrap(process').vm_rss = procTable[Unwrap(victim)].VmRSS * KB
          /\ Unwrap(process').vm_swap = procTable[Unwrap(victim)].VmSwap * KB]_vars

(***************************************************************************)
(* Properties of is_oomable().                                             *)
(***************************************************************************)
\* the call read the processes and applied is_oomable() to them
Screened == sel.called /\ sel.ok /\ sel.pressure = "true"

\* C25: a process whose stored State value begins with 'Z' is never oomable
\* and never selected.
C25_ZombieNeverOomable ==
    Screened =>
        \A p \in PresentPids(procTable) :
            starts_with(procTable[p].State, "Z")
                => (p \notin sel.oomable /\ sel.result # Some(p))

\* C26: a process with PPid 0 whose pid is not 1 is treated as a kernel
\* thread whatever its name: it is not oomable and is never selected.
C26_NoParentNeverOomable ==
    Screened =>
        \A p \in PresentPids(procTable) :
            (procTable[p].PPid = 0 /\ p # 1)
                => (p \notin sel.oomable /\ sel.result # Some(p))

(***************************************************************************)
(* Properties of the score.                                                *)
(***************************************************************************)

\* C27: on a host of 4 GiB or more, with the default weights and equal
\* runtime subscores, B (RSS 1 GiB, adj +500) has a strictly higher total
\* score than A (RSS 4 GiB, adj -999), and select_process() over these two
\* processes returns B.
C27_ProtectedLosesByAdj ==
    (Screened /\ procTable = AdjTable) =>
        /\ ScoreOf(2, procTable, sel.total_memory)
              > ScoreOf(1, procTable, sel.total_memory)
        /\ sel.result = Some(2)

(***************************************************************************)
(* SpecRace: the worker's loop of Spec on a host where, between            *)
(* select_process() and the re-read of check_and_kill, the victim's entry  *)
(* of the process table changes: its oom_score_adj is set to -1000, or it  *)
(* exits and its pid is given to a new, small process.  The changes are    *)
(* followed until the first kill.                                          *)
(***************************************************************************)
ProcChange ==
    /\ pc = "reread"
    /\ killLog = <<>>
    /\ Unwrap(victim) \in PresentPids(procTable)
    /\ \E changed \in {[procTable[Unwrap(victim)] EXCEPT
                          !.oom_score_adj = SCORE_ADJ_MIN], Tiny} :
         /\ changed # procTable[Unwrap(victim)]
         /\ procTable' = [procTable EXCEPT ![Unwrap(victim)] = changed]
    /\ UNCHANGED <<now, config, meminfo, pressure_start, last_pressure_check,
                   last_kill_time, total_kills, total_memory_reclaimed, pc,
                   victim, process, callLog, sel, iter, killLog>>
    /\ UNCHANGED lifeVars

RaceNext == Next \/ ProcChange

SpecRace == Init /\ [][RaceNext]_vars

\* C29: every process that gets the SIGKILL of the loop satisfies the
\* eligibility predicate (name, oom_score_adj, RSS thresholds) according to
\* the record that check_and_kill re-read just before the signal, whatever
\* happened to the process table since the selection.
C29_KilledIsStillEligible ==
    [][(pc = "kill" /\ pc' = "record") =>
          is_valid_candidate(Unwrap(process), get_memory_stats(meminfo),
                             config.selector)]_vars

(***************************************************************************)
(* Properties of the kills made on behalf of one handle.                   *)
(***************************************************************************)

\* C30: whatever start() and stop() calls are made on the handle and however
\* they interleave with the workers' iterations, every SIGKILL delivered on
\* behalf of the handle comes at least min_kill_interval after each earlier
\* one, also across a stop() followed by a start().
C30_KillsSpacedAcrossRestart ==
    [][Len(killLog') > Len(killLog) =>
          \A i \in 1..Len(killLog) :
              killLog'[Len(killLog')].t - killLog[i].t
                  >= config.min_kill_interval]_vars

(***************************************************************************)
(* Properties of the loop regarding pressure episodes.                     *)
(***************************************************************************)

\* C31: if the host's memory is not over-threshold at the start of a loop
\* iteration after a kill, an iteration skipped by the kill interval
\* included, the next kill is preceded by a new over-threshold episode of
\* at least pressure_duration that began after that iteration: when the
\* SIGKILL is sent, an over-threshold episode that began since the latest
\* such skipped iteration has gone on for pressure_duration.
C31_KillNeedsNewEpisode ==
    [][(pc = "kill" /\ pc' = "record") =>
          CalmNow(iter.calm) = None]_vars

(***************************************************************************)
(* Properties of start() when the thread cannot be spawned.                *)
(***************************************************************************)

\* C32: a start() that fails to spawn the worker thread returns an error and
\* leaves the killer stopped: the running flag is false and no worker was
\* added, so that a later start() tries the spawn again.
C32_FailedStartStaysStopped ==
    [][(IsCall("start") /\ ~api'.ok) =>
          /\ ~running'
          /\ workers' = workers]_vars

====
